---- MODULE Spec2Model ----
(***************************************************************************)
(* Model of sake.cache: the connection registry (ResourceClient), the      *)
(* resource lifecycle (open / close / subscribe_listener /                 *)
(* unsubscribe_listener) and the guild, emoji and user caches of          *)
(* FullCache.                                                              *)
(*                                                                         *)
(* Scheduling is asyncio's: one task runs at a time and gives up control   *)
(* only at an await that really suspends.  Every action below is the code  *)
(* of one task from one suspension point to the next.  The awaits that     *)
(* suspend are aioredis.create_redis_pool, pool.close() and the commands   *)
(* sent over a pool; awaiting one of the class's own coroutines            *)
(* (self.get_connection, self.open) runs it inline.                        *)
(***************************************************************************)
EXTENDS Integers, Sequences, FiniteSets, Bags

VARIABLES
    started,    \* ResourceClient._started
    clients,    \* ResourceClient._clients: insertion-ordered dict, a sequence of <<index, pool>>
    pools,      \* every pool create_redis_pool has returned: its db and whether it is closed
    listeners,  \* the dispatcher's registrations: <<event type, handler>> -> how many times
    store,      \* the backing store: partition (db number) -> key -> hash (NoRecord: no key)
    tasks,      \* the suspended coroutines, a bag: where each is suspended and its locals
    last        \* the call that finished last: what it was and how it ended

vars == <<started, clients, pools, listeners, store, tasks, last>>

(*************************** bounds of the model ***************************)
MaxTasks == 2    \* coroutines in flight at once
MaxPools == 2    \* pools create_redis_pool hands out in one run
MaxSubs == 2     \* registrations of one handler the dispatcher is let to hold
MaxGuild == 1    \* guild ids 1..MaxGuild
MaxData == 1     \* payloads of a guild (its fields other than the id) 1..MaxData
MaxEmoji == 1    \* emoji ids 1..MaxEmoji
MaxUser == 1     \* user ids 1..MaxUser

Tasks == 1..MaxTasks
GuildIds == 1..MaxGuild
Data == 1..MaxData
EmojiIds == 1..MaxEmoji
UserIds == 1..MaxUser

\* The keys of a partition: int(entity.id).
Keys == GuildIds \cup EmojiIds \cup UserIds

(****************************** ResourceIndex ******************************)
EMOJI == 0
GUILD == 1
GUILD_CHANNEL == 2
INVITE == 3
ME == 4
MEMBER == 5
PRESENCE == 6
ROLE == 7
USER == 8
VOICE_STATE == 9

ResourceIndex ==
    {EMOJI, GUILD, GUILD_CHANNEL, INVITE, ME, MEMBER, PRESENCE, ROLE, USER, VOICE_STATE}

\* The indices the callers of the model pass in.
Indices == {EMOJI, GUILD}

\* The partitions the operations of the model reach: those of the indices
\* callers pass in, and the users' (_set_user, get_user).
Partitions == Indices \cup {USER}

(************************** entities and records **************************)
\* An entity as the caller holds it: its id, its payload, the guild an emoji
\* belongs to, and an emoji's creator (emoji.user, a user, held by its id; 0
\* is None).  Of the fields other than the ids only a guild's are kept.
Entity(id, data, guild_id, user) ==
    [id |-> id, data |-> data, guild_id |-> guild_id, user |-> user]

NoEntity == Entity(0, 0, 0, 0)

User(id) == Entity(id, 0, 0, 0)

GuildEntity(id, data) == Entity(id, data, 0, 0)

Emoji(id, guild_id, user) == Entity(id, 0, guild_id, user.id)

\* emoji.user
EmojiUser(e) == IF e.user = 0 THEN NoEntity ELSE User(e.user)

Users == {User(u) : u \in UserIds}

Emojis ==
    {Emoji(i, g, u) : i \in EmojiIds, g \in GuildIds, u \in Users \cup {NoEntity}}

\* The argument of a call that takes an id.
ById(id) == Entity(id, 0, 0, 0)

\* A hash of the store: field -> value, 0 for a field the hash has not.
Record(id, data, guild_id, user_id) ==
    [id |-> id, data |-> data, guild_id |-> guild_id, user_id |-> user_id]

\* The empty mapping hgetall returns for a key that does not exist.
NoRecord == Record(0, 0, 0, 0)

\* conversion.serialize_*: the mapping written for an entity.  An emoji's
\* mapping has its "user_id" field only when the emoji has a creator
\* (get_emoji tests `"user_id" in data`).
serialize_user(u) == Record(u.id, 0, 0, 0)

serialize_guild(g) == Record(g.id, g.data, 0, 0)

serialize_emoji(e) == Record(e.id, 0, e.guild_id, e.user)

\* conversion.deserialize_*: the entity built from a mapping read back; the
\* emoji's creator is the user get_emoji passes in.
deserialize_user(rec) == User(rec.id)

deserialize_guild(rec) == GuildEntity(rec.id, rec.data)

deserialize_emoji(rec, user) == Emoji(rec.id, rec.guild_id, user)

\* What conversion.deserialize_* does with a mapping: it returns the entity
\* built from it.  For the mapping without fields (the key does not exist)
\* nothing says what it does: it raises, or it returns an entity built from
\* nothing.
DeserializeOutcomes(rec) == IF rec = NoRecord THEN {"raise", "return"} ELSE {"return"}

(************************ the commands of the store ************************)
\* HMSET: the fields given are written, the other fields of the hash stay.
Hmset(old, new) == [f \in DOMAIN old |-> IF new[f] # 0 THEN new[f] ELSE old[f]]

RECURSIVE HmsetAll(_, _)
\* The hmset_dict commands queued in a MULTI/EXEC transaction, one per
\* record of the batch (their keys differ).
HmsetAll(part, batch) ==
    IF batch = {} THEN part
    ELSE LET r == CHOOSE x \in batch : TRUE
         IN HmsetAll([part EXCEPT ![r.id] = Hmset(@, r)], batch \ {r})

\* The store after a command has run on partition db.
Execute(st, db, cmd, key, val, batch) ==
    CASE cmd = "hmset" -> [st EXCEPT ![db][key] = Hmset(@, val)]
      [] cmd = "delete" -> [st EXCEPT ![db][key] = NoRecord]
      [] cmd = "flushdb" -> [st EXCEPT ![db] = [k \in Keys |-> NoRecord]]
      [] cmd = "exec" -> [st EXCEPT ![db] = HmsetAll(@, batch)]
      [] OTHER -> st

(************************ the dict ResourceClient._clients *****************)
DictKeys(d) == {d[i][1] : i \in 1..Len(d)}

DictValues(d) == [i \in 1..Len(d) |-> d[i][2]]

DictGet(d, k) == LET i == CHOOSE j \in 1..Len(d) : d[j][1] = k IN d[i][2]

\* d[k] = v: an existing key keeps its place, a new key goes last.
DictSet(d, k, v) ==
    IF k \in DictKeys(d)
    THEN [i \in 1..Len(d) |-> IF d[i][1] = k THEN <<k, v>> ELSE d[i]]
    ELSE Append(d, <<k, v>>)

\* A pop that hands the value out and leaves the entry in place.
DictPop_keep(d, k) == d

DictPop(d, k) == SelectSeq(d, LAMBDA e : e[1] # k)

(******************************* dispatcher ********************************)
OnGuildVisibility == "_on_guild_visibility_event"

Registrations ==
    { <<"EmojisUpdateEvent", "_on_emojis_update">>,
      <<"GuildAvailableEvent", "_on_guild_available_and_update">>,
      <<"GuildUpdateEvent", "_on_guild_available_and_update">>,
      <<"GuildLeaveEvent", "_on_guild_leave">>,
      <<"MemberDeleteEvent", "_on_member_delete">>,
      <<"GuildVisibilityEvent", OnGuildVisibility>> }

EmojiRegistrations == Registrations \ {<<"GuildVisibilityEvent", OnGuildVisibility>>}

GuildRegistrations == {<<"GuildVisibilityEvent", OnGuildVisibility>>}

\* dispatcher.subscribe(event_type, callback): one more registration.
Subscribe(l, reg) == [l EXCEPT ![reg] = @ + 1]

\* dispatcher.unsubscribe(event_type, callback): one registration fewer.
Unsubscribe(l, reg) == [l EXCEPT ![reg] = IF @ > 0 THEN @ - 1 ELSE 0]

RECURSIVE SubscribeAll(_, _)
SubscribeAll(l, regs) ==
    IF regs = {} THEN l
    ELSE LET r == CHOOSE x \in regs : TRUE
         IN SubscribeAll(Subscribe(l, r), regs \ {r})

RECURSIVE UnsubscribeAll(_, _)
UnsubscribeAll(l, regs) ==
    IF regs = {} THEN l
    ELSE LET r == CHOOSE x \in regs : TRUE
         IN UnsubscribeAll(Unsubscribe(l, r), regs \ {r})

\* The concrete events a dispatcher delivers, and the classes each is an
\* instance of (GuildAvailableEvent, GuildUnavailableEvent and
\* GuildLeaveEvent derive from GuildVisibilityEvent).
Events ==
    {"GuildAvailableEvent", "GuildUnavailableEvent", "GuildLeaveEvent",
     "GuildUpdateEvent", "EmojisUpdateEvent", "MemberDeleteEvent"}

EventClasses(ev) ==
    IF ev \in {"GuildAvailableEvent", "GuildUnavailableEvent", "GuildLeaveEvent"}
    THEN {ev, "GuildVisibilityEvent"}
    ELSE {ev}

(*************************** subscribe_listener ****************************)
\* UserCache.subscribe_listener / unsubscribe_listener: super() only, which
\* ends in ResourceBase's, returning None.
UserCache_subscribe_listener(l) == l

UserCache_unsubscribe_listener(l) == l

EmojiCache_subscribe_listener(l) ==
    SubscribeAll(UserCache_subscribe_listener(l), EmojiRegistrations)

EmojiCache_unsubscribe_listener(l) ==
    UnsubscribeAll(UserCache_unsubscribe_listener(l), EmojiRegistrations)

\* GuildCache.subscribe_listener: no super() call.
GuildCache_subscribe_listener(l) ==
    Subscribe(l, <<"GuildVisibilityEvent", OnGuildVisibility>>)

\* GuildCache.unsubscribe_listener: calls dispatcher.subscribe.
GuildCache_unsubscribe_listener(l) ==
    Subscribe(l, <<"GuildVisibilityEvent", OnGuildVisibility>>)

\* FullCache(ResourceClient, GuildCache, EmojiCache): self.subscribe_listener
\* is the first definition along the MRO ResourceClient, GuildCache,
\* EmojiCache, UserCache, ResourceBase.  ResourceClient defines none, so it
\* is GuildCache's, which does not call super().
subscribe_listener(l) == GuildCache_subscribe_listener(l)

unsubscribe_listener(l) == GuildCache_unsubscribe_listener(l)

(********************************* tasks ***********************************)
\* A suspended coroutine: the await it is in (pc), the operation it runs,
\* the resource index it is working on, the pool it holds, the command it
\* sends, the key and value of the command, and (close() only) the pools
\* still to be swept.  The emoji operations keep more locals: the entity
\* passed in (ent), the emoji pool while the user is written or read (held),
\* the emoji mapping read (data), the records of a transaction (batch);
\* asyncio.gather's caller keeps how many awaitables are not done (pending)
\* and, once the gather is done, how it ended (result); an awaitable gather
\* runs is marked (child).
Task(pc, op, res, conn, cmd, key, val, active) ==
    [pc |-> pc, op |-> op, res |-> res, conn |-> conn, cmd |-> cmd,
     key |-> key, val |-> val, active |-> active,
     ent |-> NoEntity, held |-> 0, data |-> NoRecord, batch |-> {},
     pending |-> 0, result |-> "none", child |-> FALSE]

Running == BagToSet(tasks)

\* There is room for one more coroutine.
Room == BagCardinality(tasks) < MaxTasks

Spawned(new) == tasks (+) SetToBag({new})

Ended(me) == tasks (-) SetToBag({me})

\* A finished call: the operation, its resource index, how it ended, what it
\* returned, and whether it was suspended in an await on its way; the entity
\* (or id) it was called with (arg), the entity it returned (val) and the
\* records of the view it returned (view).
Call(op, res, outcome, ret, suspended) ==
    [op |-> op, res |-> res, outcome |-> outcome, ret |-> ret, suspended |-> suspended,
     arg |-> NoEntity, val |-> NoEntity, view |-> {}]

NoCall == Call("none", 0, "none", 0, FALSE)

Init ==
    /\ started = FALSE
    /\ clients = <<>>
    /\ pools = <<>>
    /\ listeners = [reg \in Registrations |-> 0]
    /\ store = [p \in Partitions |-> [k \in Keys |-> NoRecord]]
    /\ tasks = EmptyBag
    /\ last = NoCall

(***************************** get_connection ******************************)
\* get_connection without the check of _started.
get_connection_unguarded(res) ==
    IF res \in DictKeys(clients)
    THEN [kind |-> "return", conn |-> DictGet(clients, res)]
    ELSE [kind |-> "await", conn |-> 0]

\* get_connection that never looks its pool up in _clients.
get_connection_noreuse(res) ==
    IF ~started THEN [kind |-> "raise", conn |-> 0]
    ELSE [kind |-> "await", conn |-> 0]

\* ResourceClient.get_connection up to its await: raise when the client is
\* not started, return the registered pool when there is one, else go on to
\* await create_redis_pool.
get_connection(res) ==
    IF ~started THEN [kind |-> "raise", conn |-> 0]
    ELSE IF res \in DictKeys(clients)
         THEN [kind |-> "return", conn |-> DictGet(clients, res)]
         ELSE [kind |-> "await", conn |-> 0]

\* A create_redis_pool that opens every pool on the same partition.
NewPool_shared(res) == [db |-> EMOJI, closed |-> FALSE]

\* The pool create_redis_pool(db=int(resource)) returns.
NewPool(res) == [db |-> res, closed |-> FALSE]

\* self._clients[resource] = pool, after the await.
RegisterPool(d, res, p) == DictSet(d, res, p)

(***************************** asyncio.gather ******************************)
\* A gather that collects the exceptions of its awaitables as results
\* (return_exceptions=True): its caller goes on waiting for the others.
Gathered_return_exceptions(rest, p, outcome) ==
    IF p.pending = 1
    THEN (rest (-) SetToBag({p}))
            (+) SetToBag({[p EXCEPT !.pc = "ready", !.pending = 0, !.result = "ok"]})
    ELSE (rest (-) SetToBag({p})) (+) SetToBag({[p EXCEPT !.pending = @ - 1]})

\* `await asyncio.gather(...)` in the coroutine p when one of its awaitables
\* ends: the first exception is the gather's result at once and the other
\* awaitables keep running; without an exception the gather is done when
\* the last one is.  A gather that is done makes p ready to run; p itself
\* goes on only when the event loop comes to it (GatherDone).  The result
\* is the bag of coroutines.
Gathered(rest, p, outcome) ==
    IF outcome # "ok"
    THEN (rest (-) SetToBag({p}))
            (+) SetToBag({[p EXCEPT !.pc = "ready", !.result = outcome]})
    ELSE IF p.pending = 1
         THEN (rest (-) SetToBag({p}))
                 (+) SetToBag({[p EXCEPT !.pc = "ready", !.pending = 0, !.result = "ok"]})
         ELSE (rest (-) SetToBag({p})) (+) SetToBag({[p EXCEPT !.pending = @ - 1]})

\* The coroutines suspended in asyncio.gather.
Gathering(bag) == {t \in BagToSet(bag) : t.pc = "gather"}

\* The index an operation reports: set_emoji and get_emoji are emoji
\* operations also while they write or read the creator.
Home(me) == IF me.op \in {"set_emoji", "get_emoji"} THEN EMOJI ELSE me.res

\* The coroutine `me` ends, the other coroutines being `rest`: a call ends
\* for its caller, an awaitable of a gather ends for the gather (and for
\* nobody when the gather is done already).
Finish(rest, me, outcome, ret, val, suspended) ==
    IF me.child
    THEN IF Gathering(rest) = {}
         THEN /\ tasks' = rest
              /\ last' = last
         ELSE /\ tasks' = Gathered(rest, CHOOSE p \in Gathering(rest) : TRUE, outcome)
              /\ last' = last
    ELSE /\ tasks' = rest
         /\ last' = [Call(me.op, Home(me), outcome, ret, suspended)
                        EXCEPT !.arg = me.ent, !.val = val]

(************************ operations over a connection *********************)
\* `client = await self.get_connection(ResourceIndex.USER)` inside _set_user
\* and get_user, run inline by the coroutine `me` (already set to the user's
\* key and value).
InnerUser(rest, me, suspended) ==
    LET g == get_connection(USER)
    IN  CASE g.kind = "raise" -> Finish(rest, me, "RuntimeError", 0, NoEntity, suspended)
          [] g.kind = "return" ->
                /\ tasks' = rest (+) SetToBag({[me EXCEPT !.pc = "io", !.conn = g.conn]})
                /\ last' = last
          [] g.kind = "await" ->
                /\ tasks' = rest (+) SetToBag({[me EXCEPT !.pc = "connect", !.conn = 0]})
                /\ last' = last

\* The coroutine self._set_user(user) that asyncio.gather runs.
SetUserTask(u) ==
    [Task("start", "_set_user", USER, 0, "hmset", u.id, serialize_user(u), <<>>)
        EXCEPT !.ent = u, !.child = TRUE]

RECURSIVE UserTasks(_)
\* user_tasks of _bulk_add_emojis: one _set_user per emoji that has a creator.
UserTasks(emojis) ==
    IF emojis = {} THEN EmptyBag
    ELSE LET e == CHOOSE x \in emojis : TRUE
         IN (IF e.user # 0 THEN SetToBag({SetUserTask(EmojiUser(e))}) ELSE EmptyBag)
                (+) UserTasks(emojis \ {e})

\* transaction.execute() as asyncio.gather runs it: the queued hmset_dict
\* commands of the emojis, sent over the emoji pool as one MULTI/EXEC.
ExecuteTask(me, conn) ==
    [Task("io", me.op, EMOJI, conn, "exec", 0, NoRecord, <<>>)
        EXCEPT !.batch = {serialize_emoji(e) : e \in me.batch}, !.child = TRUE]

\* A set_emoji that sends the emoji's own hmset_dict at once, without the
\* _set_user of the creator before it.
Resume_emoji_only(rest, me, conn, suspended) ==
    CASE me.cmd = "none" ->
            Finish(rest, me, "ok", IF me.op = "get_connection" THEN conn ELSE 0,
                   NoEntity, suspended)
      [] me.cmd = "bulk" ->
            /\ tasks' = rest (+) SetToBag({[me EXCEPT !.pc = "gather", !.conn = conn,
                                               !.pending = 1 + BagCardinality(UserTasks(me.batch))]})
                             (+) SetToBag({ExecuteTask(me, conn)})
                             (+) UserTasks(me.batch)
            /\ last' = last
      [] OTHER ->
            /\ tasks' = rest (+) SetToBag({[me EXCEPT !.pc = "io", !.conn = conn]})
            /\ last' = last

\* The call `me` goes on with the pool `conn` that get_connection returned,
\* the other coroutines being `rest`: get_connection itself (and a handler
\* with nothing to send) is finished; _bulk_add_emojis hands its transaction
\* and its user_tasks to asyncio.gather and waits; set_emoji of an emoji
\* with a creator goes into _set_user first; every other operation sends its
\* command over the pool and suspends.
Resume(rest, me, conn, suspended) ==
    CASE me.cmd = "none" ->
            Finish(rest, me, "ok", IF me.op = "get_connection" THEN conn ELSE 0,
                   NoEntity, suspended)
      [] me.cmd = "bulk" ->
            /\ tasks' = rest (+) SetToBag({[me EXCEPT !.pc = "gather", !.conn = conn,
                                               !.pending = 1 + BagCardinality(UserTasks(me.batch))]})
                             (+) SetToBag({ExecuteTask(me, conn)})
                             (+) UserTasks(me.batch)
            /\ last' = last
      [] me.cmd # "none" /\ me.cmd # "bulk" /\ me.op = "set_emoji" /\ me.res = EMOJI
                /\ me.ent.user # 0 ->
            InnerUser(rest, [me EXCEPT !.held = conn, !.res = USER, !.key = me.ent.user,
                                       !.val = serialize_user(EmojiUser(me.ent))], suspended)
      [] OTHER ->
            /\ tasks' = rest (+) SetToBag({[me EXCEPT !.pc = "io", !.conn = conn]})
            /\ last' = last

\* `client = await self.get_connection(me.res)` at the head of the
\* operation the coroutine `me` runs.
EnterTask(me) ==
    LET g == get_connection(me.res)
    IN  /\ Room
        /\ UNCHANGED <<started, clients, pools, listeners, store>>
        /\ CASE g.kind = "raise" -> Finish(tasks, me, "RuntimeError", 0, NoEntity, FALSE)
             [] g.kind = "return" -> Resume(tasks, me, g.conn, FALSE)
             [] g.kind = "await" ->
                    /\ tasks' = Spawned(me)
                    /\ last' = last

Enter(op, res, cmd, key, val) == EnterTask(Task("connect", op, res, 0, cmd, key, val, <<>>))

\* A direct call of get_connection(res).
GetConnection(res) == Enter("get_connection", res, "none", 0, NoRecord)

\* create_redis_pool returns: the pool is registered, whatever happened to
\* the client and the registry during the await.
ConnectDone(me) ==
    /\ me.pc = "connect"
    /\ Len(pools) < MaxPools
    /\ pools' = Append(pools, NewPool(me.res))
    /\ clients' = RegisterPool(clients, me.res, Len(pools) + 1)
    /\ Resume(Ended(me), me, Len(pools) + 1, TRUE)
    /\ UNCHANGED <<started, listeners, store>>

\* create_redis_pool raises: the error goes to the caller.
ConnectFail(me) ==
    /\ me.pc = "connect"
    /\ Finish(Ended(me), me, "ConnectionError", 0, NoEntity, TRUE)
    /\ UNCHANGED <<started, clients, pools, listeners, store>>

\* ResourceClient.get_connection_status.
get_connection_status(res) ==
    res \in DictKeys(clients) /\ ~pools[DictGet(clients, res)].closed

GetConnectionStatus(res) ==
    /\ last' = Call("get_connection_status", res, "ok",
                    IF get_connection_status(res) THEN 1 ELSE 0, FALSE)
    /\ UNCHANGED <<started, clients, pools, listeners, store, tasks>>

(****************************** open / close *******************************)
\* ResourceClient.open: no await, so it runs in one piece.
Open ==
    /\ \A reg \in Registrations : subscribe_listener(listeners)[reg] <= MaxSubs
    /\ listeners' = subscribe_listener(listeners)
    /\ started' = TRUE
    /\ last' = Call("open", 0, "ok", 0, FALSE)
    /\ UNCHANGED <<clients, pools, store, tasks>>

\* A call of the public subscribe_listener() by itself: the registrations
\* open() makes, and nothing else.
SubscribeListener ==
    /\ \A reg \in Registrations : subscribe_listener(listeners)[reg] <= MaxSubs
    /\ listeners' = subscribe_listener(listeners)
    /\ UNCHANGED <<started, clients, pools, store, tasks, last>>

\* A call of the public unsubscribe_listener() by itself.
UnsubscribeListener ==
    /\ \A reg \in Registrations : unsubscribe_listener(listeners)[reg] <= MaxSubs
    /\ listeners' = unsubscribe_listener(listeners)
    /\ UNCHANGED <<started, clients, pools, store, tasks, last>>

\* What pool.close() hands back is the library's: an awaitable, or None
\* (a close() that is a plain method).
PoolCloseReturns == {"awaitable", "None"}

\* `await pool.close()` on the pools of `todo` in turn.  With nothing to
\* close the operation is finished.  With an awaitable the coroutine
\* suspends in the first call, and the pool is closed when the await
\* returns.  With None the call has closed the pool, `await None` raises
\* TypeError at once, and the error goes to the caller.
StartClosing(op, res, todo) ==
    IF todo = <<>>
    THEN /\ tasks' = tasks
         /\ pools' = pools
         /\ last' = Call(op, res, "ok", 0, FALSE)
    ELSE \E returned \in PoolCloseReturns :
            IF returned = "awaitable"
            THEN /\ tasks' = Spawned(Task("closing", op, res, Head(todo), "none", 0,
                                          NoRecord, Tail(todo)))
                 /\ pools' = pools
                 /\ last' = last
            ELSE /\ tasks' = tasks
                 /\ pools' = [pools EXCEPT ![Head(todo)].closed = TRUE]
                 /\ last' = Call(op, res, "TypeError", Head(todo), FALSE)

\* ResourceClient.close up to its first await.  It is the close() of
\* FullCache (first along the MRO) and calls no super().close(), so
\* UserCache.close is not run.
Close ==
    /\ Room
    /\ \A reg \in Registrations : unsubscribe_listener(listeners)[reg] <= MaxSubs
    /\ started' = FALSE
    /\ listeners' = unsubscribe_listener(listeners)
    /\ clients' = <<>>
    /\ StartClosing("close", 0, DictValues(clients))
    /\ UNCHANGED store

\* ResourceClient.destroy_connection up to its await.
DestroyConnection(res) ==
    /\ Room
    /\ IF res \in DictKeys(clients)
       THEN /\ clients' = DictPop(clients, res)
            /\ StartClosing("destroy_connection", res, <<DictGet(clients, res)>>)
       ELSE /\ clients' = clients
            /\ StartClosing("destroy_connection", res, <<>>)
    /\ UNCHANGED <<started, listeners, store>>

\* An awaited pool.close() returns: the pool is closed, and close() goes on
\* to the next pool of its sweep.
CloseDone(me) ==
    /\ me.pc = "closing"
    /\ pools' = [pools EXCEPT ![me.conn].closed = TRUE]
    /\ IF me.active = <<>>
       THEN /\ tasks' = Ended(me)
            /\ last' = Call(me.op, me.res, "ok", 0, TRUE)
       ELSE /\ tasks' = Ended(me) (+)
                        SetToBag({[me EXCEPT !.conn = Head(me.active),
                                             !.active = Tail(me.active)]})
            /\ last' = last
    /\ UNCHANGED <<started, clients, listeners, store>>

\* An awaited pool.close() raises: the error leaves the for loop of close()
\* (and destroy_connection) and goes to the caller.
CloseFail(me) ==
    /\ me.pc = "closing"
    /\ tasks' = Ended(me)
    /\ last' = Call(me.op, me.res, "CloseError", me.conn, TRUE)
    /\ UNCHANGED <<started, clients, pools, listeners, store>>

(******************************* GuildCache ********************************)
SetGuild(g, d) ==
    EnterTask([Task("connect", "set_guild", GUILD, 0, "hmset", g,
                    serialize_guild(GuildEntity(g, d)), <<>>)
                  EXCEPT !.ent = GuildEntity(g, d)])

DeleteGuild(g) ==
    EnterTask([Task("connect", "delete_guild", GUILD, 0, "delete", g, NoRecord, <<>>)
                  EXCEPT !.ent = ById(g)])

GetGuild(g) ==
    EnterTask([Task("connect", "get_guild", GUILD, 0, "hgetall", g, NoRecord, <<>>)
                  EXCEPT !.ent = ById(g)])

\* GuildCache._on_guild_visibility_event: what it sends for each event.
GuildEventCmd(ev) ==
    IF ev = "GuildAvailableEvent" THEN "hmset"
    ELSE IF ev = "GuildLeaveEvent" THEN "delete"
    ELSE "none"

\* The dispatcher calls a handler registered for one of the event's classes.
Dispatch(ev, g, d) ==
    /\ \E reg \in Registrations :
          /\ listeners[reg] > 0
          /\ reg[1] \in EventClasses(ev)
          /\ reg[2] = OnGuildVisibility
    /\ Enter(OnGuildVisibility, GUILD, GuildEventCmd(ev), g,
             IF GuildEventCmd(ev) = "hmset"
             THEN serialize_guild(GuildEntity(g, d)) ELSE NoRecord)

(******************************** UserCache ********************************)
\* UserCache.get_user: the user pool, then hgetall of the user.
GetUser(id) ==
    EnterTask([Task("connect", "get_user", USER, 0, "hgetall", id, NoRecord, <<>>)
                  EXCEPT !.ent = ById(id)])

(******************************* EmojiCache ********************************)
\* EmojiCache.set_emoji: the emoji pool, then the creator through _set_user,
\* then the emoji's own hmset_dict.
SetEmoji(e) ==
    EnterTask([Task("connect", "set_emoji", EMOJI, 0, "hmset", e.id, serialize_emoji(e), <<>>)
                  EXCEPT !.ent = e])

\* EmojiCache.get_emoji: hgetall of the emoji, then get_user of its user_id.
GetEmoji(id) ==
    EnterTask([Task("connect", "get_emoji", EMOJI, 0, "hgetall", id, NoRecord, <<>>)
                  EXCEPT !.ent = ById(id)])

DeleteEmoji(id) ==
    EnterTask([Task("connect", "delete_emoji", EMOJI, 0, "delete", id, NoRecord, <<>>)
                  EXCEPT !.ent = ById(id)])

ClearEmojis == Enter("clear_emojis", EMOJI, "flushdb", 0, NoRecord)

\* The sets of emojis a caller passes: one emoji for each id of a set of
\* ids, of any guild and with or without a creator.
EmojiSets ==
    UNION {{{Emoji(i, f[i][1], f[i][2]) : i \in I} :
                f \in [I -> GuildIds \X (Users \cup {NoEntity})]} : I \in SUBSET EmojiIds}

\* The sets of emojis an event of guild g carries: emojis of g.
EmojiSetsOf(g) ==
    UNION {{{Emoji(i, g, f[i]) : i \in I} : f \in [I -> Users \cup {NoEntity}]} :
                I \in SUBSET EmojiIds}

\* The coroutine of _bulk_add_emojis(emojis), run by operation op.
BulkTask(op, g, emojis) ==
    [Task("connect", op, EMOJI, 0, "bulk", 0, NoRecord, <<>>)
        EXCEPT !.ent = ById(g), !.batch = emojis]

\* No _bulk_add_emojis is under way, and none has left awaitables running.
NoBulk == \A t \in Running : t.cmd # "bulk" /\ ~t.child

\* A direct call of EmojiCache._bulk_add_emojis(emojis).
BulkAddEmojis(emojis) ==
    /\ NoBulk
    /\ EnterTask(BulkTask("_bulk_add_emojis", 0, emojis))

\* A _set_user coroutine of asyncio.gather takes its first step.
StartSetUser(me) ==
    /\ me.pc = "start"
    /\ InnerUser(Ended(me), me, FALSE)
    /\ UNCHANGED <<started, clients, pools, listeners, store>>

\* The event loop comes to a coroutine whose asyncio.gather is done: the
\* gather's exception is raised in it, or it goes on, to the end of
\* _bulk_add_emojis and of the handler that awaits it.
GatherDone(me) ==
    /\ me.pc = "ready"
    /\ Finish(Ended(me), me, me.result, 0, NoEntity, TRUE)
    /\ UNCHANGED <<started, clients, pools, listeners, store>>

\* get_emoji_view, get_user_view, get_guild_view: `raise NotImplementedError`.
Views == {<<"get_emoji_view", EMOJI>>, <<"get_user_view", USER>>, <<"get_guild_view", GUILD>>}

GetView(v) ==
    /\ last' = Call(v[1], v[2], "NotImplementedError", 0, FALSE)
    /\ UNCHANGED <<started, clients, pools, listeners, store, tasks>>

\* EmojiCache.get_emoji_view_for_guild: `raise NotImplementedError`; no view
\* is built.
get_emoji_view_for_guild(g) == [kind |-> "raise", error |-> "NotImplementedError", view |-> {}]

\* A call of get_emoji_view_for_guild(g), the read of the emojis of a guild.
GetEmojiViewForGuild(g) ==
    LET v == get_emoji_view_for_guild(g)
    IN  /\ last' = [Call("get_emoji_view_for_guild", EMOJI,
                         IF v.kind = "raise" THEN v.error ELSE "ok", 0, FALSE)
                        EXCEPT !.arg = ById(g), !.view = v.view]
        /\ UNCHANGED <<started, clients, pools, listeners, store, tasks>>

\* A clear_emojis_for_guild that returns without doing anything.
clear_emojis_for_guild_done(g) == [kind |-> "return", error |-> "none"]

\* EmojiCache.clear_emojis_for_guild: `raise NotImplementedError`.
clear_emojis_for_guild(g) == [kind |-> "raise", error |-> "NotImplementedError"]

\* The handlers that replace the emojis of a guild.
ReplaceHandlers == {"_on_emojis_update", "_on_guild_available_and_update"}

EmojiHandlers == ReplaceHandlers \cup {"_on_guild_leave", "_on_member_delete"}

\* `await self.clear_emojis_for_guild(g)` at the head of the handler op,
\* called with an event of guild g, and then what the handler goes on to:
\* _bulk_add_emojis(emojis) in a replacing handler, nothing in the others.
Handle(op, g, emojis) ==
    LET c == clear_emojis_for_guild(g)
    IN  IF c.kind = "raise"
        THEN /\ tasks' = tasks
             /\ last' = [Call(op, EMOJI, c.error, 0, FALSE) EXCEPT !.arg = ById(g)]
             /\ UNCHANGED <<started, clients, pools, listeners, store>>
        ELSE IF op \in ReplaceHandlers
             THEN NoBulk /\ EnterTask(BulkTask(op, g, emojis))
             ELSE /\ tasks' = tasks
                  /\ last' = [Call(op, EMOJI, "ok", 0, FALSE) EXCEPT !.arg = ById(g)]
                  /\ UNCHANGED <<started, clients, pools, listeners, store>>

\* EmojiCache._on_emojis_update, called with an EmojisUpdateEvent.
OnEmojisUpdate(g, emojis) == Handle("_on_emojis_update", g, emojis)

\* EmojiCache._on_guild_available_and_update, called with a
\* GuildAvailableEvent or a GuildUpdateEvent.
OnGuildAvailableAndUpdate(g, emojis) == Handle("_on_guild_available_and_update", g, emojis)

\* EmojiCache._on_guild_leave, called with a GuildLeaveEvent.
OnGuildLeave(g) == Handle("_on_guild_leave", g, {})

\* EmojiCache._on_member_delete, called with a MemberDeleteEvent; isMe is
\* what `event.user_id == self.app.me` evaluates to.
OnMemberDelete(g, isMe) ==
    IF isMe
    THEN Handle("_on_member_delete", g, {})
    ELSE /\ last' = [Call("_on_member_delete", EMOJI, "ok", 0, FALSE) EXCEPT !.arg = ById(g)]
         /\ UNCHANGED <<started, clients, pools, listeners, store, tasks>>

(****************************** store commands *****************************)
\* `return conversion.deserialize_*(data, ...)` at the end of a get, the
\* mapping read being `data` and `entity` what the deserializer builds from
\* it: the get has no check of its own for a mapping without fields, so it
\* ends as the deserializer does.
Deserialized(rest, me, data, entity) ==
    \E outcome \in DeserializeOutcomes(data) :
        IF outcome = "raise"
        THEN Finish(rest, me, "ConversionError", 0, NoEntity, TRUE)
        ELSE Finish(rest, me, "ok", 0, entity, TRUE)

\* The reply to the command of the coroutine `me` has come, on partition db:
\* what the coroutine does with it.
Reply(rest, me, db) ==
    CASE me.op = "set_emoji" /\ me.res = USER ->
            \* _set_user is done: `await client.hmset_dict(int(emoji.id), data)`
            /\ tasks' = rest (+) SetToBag({[me EXCEPT !.res = EMOJI, !.conn = me.held,
                                               !.key = me.ent.id,
                                               !.val = serialize_emoji(me.ent)]})
            /\ last' = last
      [] me.op = "get_emoji" /\ me.res = EMOJI ->
            \* `"user_id" in data` decides whether get_user is awaited
            LET data == store[db][me.key]
            IN  IF data.user_id # 0
                THEN InnerUser(rest, [me EXCEPT !.res = USER, !.key = data.user_id,
                                                !.data = data], TRUE)
                ELSE Deserialized(rest, me, data, deserialize_emoji(data, NoEntity))
      [] me.op = "get_emoji" /\ me.res = USER ->
            \* get_user returns (or raises), then deserialize_emoji(data, user=user)
            LET data == store[db][me.key]
            IN  Deserialized(rest, me, data,
                             deserialize_emoji(me.data, deserialize_user(data)))
      [] me.op = "get_user" ->
            LET data == store[db][me.key]
            IN  Deserialized(rest, me, data, deserialize_user(data))
      [] me.op \notin {"get_emoji", "get_user"} /\ me.cmd = "hgetall" ->
            LET data == store[db][me.key]
            IN  Deserialized(rest, me, data, deserialize_guild(data))
      [] OTHER -> Finish(rest, me, "ok", 0, NoEntity, TRUE)

\* The command a coroutine sent over its pool completes: it acts on the
\* partition the pool was opened on.  A closed pool refuses it.
IODone(me) ==
    /\ me.pc = "io"
    /\ LET db == pools[me.conn].db
       IN  IF pools[me.conn].closed
           THEN /\ store' = store
                /\ Finish(Ended(me), me, "PoolClosedError", 0, NoEntity, TRUE)
           ELSE /\ store' = Execute(store, db, me.cmd, me.key, me.val, me.batch)
                /\ Reply(Ended(me), me, db)
    /\ UNCHANGED <<started, clients, pools, listeners>>

(***************************** specifications ******************************)
\* The steps of the coroutines suspended in the registry's awaits.
RegistryStep ==
    \/ \E me \in Running : ConnectDone(me)
    \/ \E me \in Running : ConnectFail(me)
    \/ \E me \in Running : CloseDone(me)
    \/ \E me \in Running : CloseFail(me)

\* The lifecycle and the registry, as a caller drives them.
Lifecycle ==
    \/ Open
    \/ Close

\* The listeners, subscribed and unsubscribed by a caller directly.
Listeners ==
    \/ SubscribeListener
    \/ UnsubscribeListener

Registry ==
    \/ \E res \in Indices : GetConnection(res)
    \/ \E res \in Indices : GetConnectionStatus(res)
    \/ \E res \in Indices : DestroyConnection(res)

\* The guild cache's own calls.
Guild ==
    \/ \E g \in GuildIds, d \in Data : SetGuild(g, d)
    \/ \E g \in GuildIds : DeleteGuild(g)
    \/ \E g \in GuildIds : GetGuild(g)

\* The dispatcher delivers events, and the commands sent complete.
Delivery ==
    \/ \E ev \in Events, g \in GuildIds, d \in Data : Dispatch(ev, g, d)
    \/ \E me \in Running : IODone(me)

\* The emoji cache's own calls.
EmojiCalls ==
    \/ \E e \in Emojis : SetEmoji(e)
    \/ \E id \in EmojiIds : GetEmoji(id)
    \/ \E id \in EmojiIds : DeleteEmoji(id)
    \/ ClearEmojis

\* The user cache's own call.
UserCalls == \E id \in UserIds : GetUser(id)

\* The views of the caches.
ViewCalls ==
    \/ \E v \in Views : GetView(v)
    \/ \E g \in GuildIds : GetEmojiViewForGuild(g)

\* The bulk insert, the first step of the coroutines it hands to
\* asyncio.gather, and its own step when the gather is done.
Bulk ==
    \/ \E emojis \in EmojiSets \ {{}} : BulkAddEmojis(emojis)
    \/ \E me \in Running : StartSetUser(me)
    \/ \E me \in Running : GatherDone(me)

\* The emoji cache's handlers, called with an event as a dispatcher they are
\* registered with calls them.
Handlers ==
    \/ \E g \in GuildIds : \E emojis \in EmojiSetsOf(g) : OnEmojisUpdate(g, emojis)
    \/ \E g \in GuildIds : \E emojis \in EmojiSetsOf(g) : OnGuildAvailableAndUpdate(g, emojis)
    \/ \E g \in GuildIds : OnGuildLeave(g)
    \/ \E g \in GuildIds, isMe \in BOOLEAN : OnMemberDelete(g, isMe)

\* Everything at once.
Next ==
    \/ Lifecycle \/ Listeners \/ Registry \/ Guild \/ EmojiCalls \/ UserCalls \/ ViewCalls
    \/ Bulk \/ Handlers \/ Delivery \/ RegistryStep

Spec == Init /\ [][Next]_vars

\* The client and its registry alone: every other operation acts on the
\* registry through get_connection only.
NextRegistry == Lifecycle \/ Listeners \/ Registry \/ RegistryStep

SpecRegistry == Init /\ [][NextRegistry]_vars

\* The client under the dispatcher's events alone.
NextEvents == Lifecycle \/ Delivery \/ RegistryStep

SpecEvents == Init /\ [][NextEvents]_vars

\* A caller that awaits each call before it makes the next one.
Sequential == tasks = EmptyBag

\* A cache opened once, under the get, set and delete calls of one
\* sequential caller.
NextStore ==
    \/ ~started /\ Open
    \/ Sequential /\ \E e \in Emojis : SetEmoji(e)
    \/ Sequential /\ \E id \in EmojiIds : GetEmoji(id)
    \/ Sequential /\ \E id \in EmojiIds : DeleteEmoji(id)
    \/ Sequential /\ \E g \in GuildIds, d \in Data : SetGuild(g, d)
    \/ Sequential /\ \E g \in GuildIds : GetGuild(g)
    \/ Sequential /\ \E g \in GuildIds : DeleteGuild(g)
    \/ Sequential /\ \E id \in UserIds : GetUser(id)
    \/ \E me \in Running : ConnectDone(me)
    \/ \E me \in Running : ConnectFail(me)
    \/ \E me \in Running : IODone(me)

SpecStore == Init /\ [][NextStore]_vars

\* An open cache under bulk inserts of emojis, one call at a time.
NextBulk ==
    \/ Open
    \/ Bulk
    \/ \E me \in Running : ConnectDone(me)
    \/ \E me \in Running : ConnectFail(me)
    \/ \E me \in Running : IODone(me)

SpecBulk == Init /\ [][NextBulk]_vars

\* The cache under events: the dispatcher's deliveries and the emoji
\* handlers, with callers that set and get emojis meanwhile.
NextHandlers ==
    \/ Lifecycle
    \/ Handlers
    \/ Delivery
    \/ \E e \in Emojis : SetEmoji(e)
    \/ \E id \in EmojiIds : GetEmoji(id)
    \/ RegistryStep

SpecHandlers == Init /\ [][NextHandlers]_vars

\* A cache opened once whose emoji handlers are called while one caller
\* sets and gets emojis, one call after the other, and the emojis of a
\* guild are read.
NextReplace ==
    \/ ~started /\ Open
    \/ Handlers
    \/ \E g \in GuildIds : GetEmojiViewForGuild(g)
    \/ Sequential /\ \E e \in Emojis : SetEmoji(e)
    \/ Sequential /\ \E id \in EmojiIds : GetEmoji(id)
    \/ \E me \in Running : ConnectDone(me)
    \/ \E me \in Running : IODone(me)

SpecReplace == Init /\ [][NextReplace]_vars

\* No call of the operation op is under way.
Idle(op) == \A t \in Running : t.op # op

\* A cache opened once with a caller that sets emojis, one call after the
\* other, while other callers get them; nothing deletes a user.
NextSetEmoji ==
    \/ ~started /\ Open
    \/ Idle("set_emoji") /\ \E e \in Emojis : SetEmoji(e)
    \/ \E id \in EmojiIds : GetEmoji(id)
    \/ \E me \in Running : ConnectDone(me)
    \/ \E me \in Running : ConnectFail(me)
    \/ \E me \in Running : IODone(me)

SpecSetEmoji == Init /\ [][NextSetEmoji]_vars

\* The emojis of guild g.
EmojisOf(g) == {e \in Emojis : e.guild_id = g}

\* The guild whose emojis the caller of NextPartitions writes.
OneGuild == CHOOSE g \in GuildIds : TRUE

\* A cache opened once under one sequential caller that writes and deletes
\* guilds and the emojis of one guild, singly and in bulk, and under the
\* guild events the dispatcher delivers between the calls.
NextPartitions ==
    \/ ~started /\ Open
    \/ Sequential /\ \E g \in GuildIds, d \in Data : SetGuild(g, d)
    \/ Sequential /\ \E g \in GuildIds : DeleteGuild(g)
    \/ Sequential /\ \E ev \in Events, g \in GuildIds, d \in Data : Dispatch(ev, g, d)
    \/ Sequential /\ \E e \in EmojisOf(OneGuild) : SetEmoji(e)
    \/ Sequential /\ \E id \in EmojiIds : DeleteEmoji(id)
    \/ Sequential /\ ClearEmojis
    \/ Sequential /\ \E emojis \in EmojiSetsOf(OneGuild) \ {{}} : BulkAddEmojis(emojis)
    \/ \E me \in Running : StartSetUser(me)
    \/ \E me \in Running : GatherDone(me)
    \/ \E me \in Running : ConnectDone(me)
    \/ \E me \in Running : IODone(me)

SpecPartitions == Init /\ [][NextPartitions]_vars

(******************************** claims ***********************************)
NoListeners == [reg \in Registrations |-> 0]

AllClosed == pools # <<>> /\ \A p \in 1..Len(pools) : pools[p].closed

\* C1: a get_connection call made while the client is not started (never
\* opened, or closed again) ends at once with the inactive-client
\* RuntimeError, for every index; it starts no connection and leaves the
\* registry, the pools and the suspended coroutines as they were.
C1_InactiveGetConnectionRaises ==
    [][\A res \in Indices :
          (~started /\ GetConnection(res)) =>
              /\ last' = Call("get_connection", res, "RuntimeError", 0, FALSE)
              /\ UNCHANGED <<clients, pools, tasks>>]_vars

\* C1 happens: get_connection has raised on a client that was open, made a
\* connection, and was closed again.
C1_Witness ==
    /\ ~started
    /\ last.op = "get_connection"
    /\ last.outcome = "RuntimeError"
    /\ AllClosed

\* C2: a connection is never established for an index that already has a
\* live connection in the registry, also when get_connection calls for the
\* same index overlap in create_redis_pool.
C2_NoSecondConnectionForIndex ==
    [][\A me \in Running :
          ConnectDone(me) =>
              ~(/\ me.res \in DictKeys(clients)
                /\ ~pools[DictGet(clients, me.res)].closed)]_vars

\* C3: open() on a started client registers nothing more with the dispatcher.
C3_OpenIdempotent ==
    [][(started /\ Open) => UNCHANGED <<listeners, started>>]_vars

\* C4: close() on a client that is not started changes nothing: no
\* registration is added or removed, no pool is closed, and the call ends at
\* once.
C4_CloseIdempotent ==
    [][(~started /\ Close) =>
          UNCHANGED <<started, listeners, clients, pools, store, tasks>>]_vars

\* C5: close() after a single open() leaves the dispatcher without any
\* registration of this cache, as before the open().
C5_CloseDeregistersAll ==
    [][(started /\ listeners = subscribe_listener(NoListeners) /\ Close) =>
          listeners' = NoListeners]_vars

\* C6: a handler the dispatcher calls while the client is not started ends
\* at once: it sends nothing to the backing store, starts no connection and
\* leaves no coroutine behind that could, for every event type, guild and
\* payload.  (An event no handler is registered for runs nothing.)  Every
\* step is taken on a started client, or is such an end of a handler, or is
\* no delivery of an event.
C6_NoMutationAfterClose ==
    [][\/ started
       \/ /\ UNCHANGED <<store, clients, pools, tasks>>
          /\ last'.outcome = "RuntimeError"
       \/ \A ev \in Events, g \in GuildIds, d \in Data : ~Dispatch(ev, g, d)]_vars

\* C6 happens: the handler has raised on a client that is closed, with its
\* pools closed, and whose guild partition holds a record.
C6_Witness ==
    /\ ~started
    /\ last.op = OnGuildVisibility
    /\ last.outcome = "RuntimeError"
    /\ AllClosed
    /\ tasks = EmptyBag
    /\ \E g \in GuildIds : store[GUILD][g] # NoRecord

\* C7: open() of the combined cache adds one registration of every handler
\* of the guild and the emoji module, and close() takes one of each away.
C7_UnionSubscribedOnce ==
    [][/\ (~started /\ Open) =>
              \A reg \in Registrations : listeners'[reg] = listeners[reg] + 1
       /\ (started /\ Close) =>
              \A reg \in Registrations : listeners'[reg] = listeners[reg] - 1]_vars

\* C8: when a pool's close() raises during the sweep of close(), every pool
\* still to be swept is closed or being closed afterwards.
C8_SweepToleratesCloseFailure ==
    [][\A me \in Running :
          (me.op = "close" /\ CloseFail(me)) =>
              \A i \in 1..Len(me.active) :
                  \/ pools'[me.active[i]].closed
                  \/ \E u \in BagToSet(tasks') : u.pc = "closing" /\ u.conn = me.active[i]]_vars

\* C9: destroy_connection(res) with an entry for res removes that entry and
\* closes that pool and no other (it suspends in the pool's close(), which
\* closes the pool when it returns, or the call of close() has closed the
\* pool already); without an entry it changes nothing and closes nothing.
\* Either way no entry for res is left, so a second call right after is the
\* call without an entry, and the entries of the other indices stay as they
\* are.
C9_DestroyIdempotent ==
    [][/\ \A res \in Indices :
              DestroyConnection(res) =>
                  /\ res \notin DictKeys(clients')
                  /\ \A o \in DictKeys(clients) \ {res} :
                        o \in DictKeys(clients') /\ DictGet(clients', o) = DictGet(clients, o)
                  /\ DictKeys(clients') \subseteq DictKeys(clients)
                  /\ IF res \in DictKeys(clients)
                     THEN \/ /\ pools' = pools
                             /\ tasks' = Spawned(Task("closing", "destroy_connection", res,
                                                      DictGet(clients, res), "none", 0,
                                                      NoRecord, <<>>))
                          \/ /\ pools' = [pools EXCEPT ![DictGet(clients, res)].closed = TRUE]
                             /\ tasks' = tasks
                             /\ last' = Call("destroy_connection", res, "TypeError",
                                             DictGet(clients, res), FALSE)
                     ELSE /\ UNCHANGED <<started, clients, pools, listeners, store, tasks>>
                          /\ last' = Call("destroy_connection", res, "ok", 0, FALSE)
       /\ \A me \in Running :
              (me.op = "destroy_connection" /\ CloseDone(me)) =>
                  /\ pools' = [pools EXCEPT ![me.conn].closed = TRUE]
                  /\ clients' = clients
                  /\ tasks' = Ended(me)]_vars

\* C9 happens: destroy_connection has closed the pool of its index and
\* removed the entry, and the entry of another index is still there.
C9_Witness ==
    /\ last.op = "destroy_connection"
    /\ last.outcome = "ok"
    /\ last.suspended
    /\ last.res \notin DictKeys(clients)
    /\ \E p \in 1..Len(pools) : pools[p].db = last.res /\ pools[p].closed
    /\ \E o \in DictKeys(clients) : ~pools[DictGet(clients, o)].closed

\* C10: open() establishes no connection.  On a started client a
\* get_connection(res) without an entry for res establishes one pool, on the
\* partition of res, and registers it; with an entry it returns the
\* registered pool at once and establishes none.
C10_LazyAndReused ==
    [][/\ Open => UNCHANGED <<clients, pools, tasks>>
       /\ \A res \in Indices :
              (started /\ GetConnection(res)) =>
                  IF res \in DictKeys(clients)
                  THEN /\ last' = Call("get_connection", res, "ok", DictGet(clients, res), FALSE)
                       /\ UNCHANGED <<clients, pools, tasks>>
                  ELSE /\ tasks' = Spawned(Task("connect", "get_connection", res, 0,
                                                "none", 0, NoRecord, <<>>))
                       /\ UNCHANGED <<clients, pools>>
       /\ \A me \in Running :
              (me.op = "get_connection" /\ ConnectDone(me)) =>
                  /\ pools' = Append(pools, [db |-> me.res, closed |-> FALSE])
                  /\ DictGet(clients', me.res) = Len(pools')
                  /\ last' = Call("get_connection", me.res, "ok", Len(pools'), TRUE)]_vars

\* C10 happens: a get_connection that did not suspend has returned the one
\* pool ever established, which is still registered and open.
C10_Witness ==
    /\ started
    /\ Len(pools) = 1
    /\ last = Call("get_connection", pools[1].db, "ok", 1, FALSE)
    /\ DictGet(clients, pools[1].db) = 1
    /\ ~pools[1].closed

\* The emoji records of the store st that belong to guild g.
ScopedTo(st, g) == {st[EMOJI][k] : k \in {j \in Keys : st[EMOJI][j].guild_id = g}}

\* C11: when a set_emoji(e) (set_guild(e)) has returned and the next call,
\* with nothing run in between, is get_emoji(e.id) (get_guild(e.id)), the
\* get returns an entity equal to e, the emoji's creator included.
C11_RoundTrip ==
    [][\A me \in Running :
          (/\ last.outcome = "ok"
           /\ \/ last.op = "set_emoji" /\ me.op = "get_emoji"
              \/ last.op = "set_guild" /\ me.op = "get_guild"
           /\ me.ent.id = last.arg.id
           /\ IODone(me)
           /\ tasks' = EmptyBag) =>
              /\ last'.outcome = "ok"
              /\ last'.val = last.arg]_vars

\* C12: a delete of an id ends without an error whether the id has a record
\* or not; afterwards the id has no record and every other record is as it
\* was, so a delete of an id without a record changes nothing; and the get
\* of that id that follows a delete ends with the not-found error and
\* returns no entity.
C12_DeleteIdempotent ==
    [][\A me \in Running :
          /\ (me.cmd = "delete" /\ me.pc = "io" /\ ~pools[me.conn].closed /\ IODone(me)) =>
                /\ last'.outcome = "ok"
                /\ store' = [store EXCEPT ![me.res][me.key] = NoRecord]
                /\ store[me.res][me.key] = NoRecord => store' = store
          /\ (/\ last.outcome = "ok"
              /\ \/ last.op = "delete_emoji" /\ me.op = "get_emoji"
                 \/ last.op = "delete_guild" /\ me.op = "get_guild"
              /\ me.ent.id = last.arg.id
              /\ IODone(me)) =>
                /\ last'.op = me.op
                /\ last'.outcome = "NotFoundError"
                /\ last'.val = NoEntity
                /\ store' = store]_vars

\* C13: when a replacing handler (emojis-update, guild-available or
\* guild-update) called on an open cache with the emojis S of guild g has
\* ended, the emoji records of g in the store are exactly those of S.
C13_ScopeReplaced ==
    [][\A g \in GuildIds : \A emojis \in EmojiSetsOf(g) :
          (/\ started
           /\ OnEmojisUpdate(g, emojis) \/ OnGuildAvailableAndUpdate(g, emojis)
           /\ last'.op \in ReplaceHandlers) =>
              ScopedTo(store', g) = {serialize_emoji(e) : e \in emojis}]_vars

\* C14: when the handling of a guild-leave event of guild g has ended on an
\* open cache (the delete of the guild handler has completed, the emoji
\* handler has ended), g has no guild record and no emoji record of g is
\* left.
C14_GuildLeaveClears ==
    [][/\ \A me \in Running :
              (me.op = OnGuildVisibility /\ me.cmd = "delete" /\ IODone(me)
                    /\ last'.outcome = "ok") =>
                  /\ store'[GUILD][me.key] = NoRecord
                  /\ ScopedTo(store', me.key) = {}
       /\ \A g \in GuildIds :
              (started /\ OnGuildLeave(g)) => ScopedTo(store', g) = {}]_vars

\* C15: a read of the emojis of guild g made while a replacement of g's
\* emojis is being handled (a replacing handler of g has not ended, or the
\* read is the step that follows the call of a replacing handler for g)
\* ends with a view, and the view holds the complete membership of g as the
\* store has it or the complete new membership of a replacement of g that
\* is under way, never anything else.
C15_ReplaceAtomicForReaders ==
    [][\A g \in GuildIds :
          (/\ GetEmojiViewForGuild(g)
           /\ \/ last.op \in ReplaceHandlers /\ last.arg = ById(g)
              \/ \E u \in Running : u.op \in ReplaceHandlers /\ u.ent.id = g) =>
              /\ last'.outcome = "ok"
              /\ last'.view \in
                    {ScopedTo(store, g)} \cup
                    {{serialize_emoji(e) : e \in t.batch} :
                        t \in {u \in Running : u.op \in ReplaceHandlers /\ u.ent.id = g}}]_vars

\* C16: a replacing handler writes nothing unless its clear has completed:
\* the clear of the scope raises, and the handler ends at once with that
\* error, the store, the registry and the suspended coroutines being as
\* they were.  (Every step is such a step, or is no call of a replacing
\* handler.)
C16_ClearBeforeUpsert ==
    [][\/ /\ UNCHANGED <<store, clients, pools, tasks>>
          /\ last'.op \in ReplaceHandlers
          /\ last'.outcome = "NotImplementedError"
       \/ \A g \in GuildIds : \A emojis \in EmojiSetsOf(g) :
              ~(OnEmojisUpdate(g, emojis) \/ OnGuildAvailableAndUpdate(g, emojis))]_vars

\* C16 happens: a replacing handler has ended with the error of the clear on
\* an open cache that holds an emoji of the event's guild, nothing being in
\* flight.
C16_Witness ==
    /\ started
    /\ last.op \in ReplaceHandlers
    /\ last.outcome = "NotImplementedError"
    /\ ScopedTo(store, last.arg.id) # {}
    /\ tasks = EmptyBag

\* C17: in the bulk insert the transaction writes every emoji record of the
\* batch in one step and nothing else, and a creator's upsert writes the
\* creator's record alone; when a creator's upsert fails while the bulk
\* insert waits, that error is the result of the wait at once, and the bulk
\* insert, when it runs again, ends with it for its caller; the store keeps
\* what is committed, and the other writes go on.
C17_PartialBulkFailure ==
    [][\A me \in Running :
          /\ (me.cmd = "exec" /\ me.pc = "io" /\ ~pools[me.conn].closed /\ IODone(me)) =>
                /\ \A k \in Keys :
                      store'[EMOJI][k] =
                          IF \E r \in me.batch : r.id = k
                          THEN Hmset(store[EMOJI][k], CHOOSE r \in me.batch : r.id = k)
                          ELSE store[EMOJI][k]
                /\ store'[USER] = store[USER]
          /\ (me.op = "_set_user" /\ me.pc = "io" /\ ~pools[me.conn].closed /\ IODone(me)) =>
                store' = [store EXCEPT ![USER][me.key] = Hmset(@, me.val)]
          /\ (me.op = "_set_user" /\ Gathering(tasks) # {} /\ ConnectFail(me)) =>
                /\ store' = store
                /\ Gathering(tasks') = {}
                /\ \E p \in BagToSet(tasks') :
                      /\ p.op = "_bulk_add_emojis"
                      /\ p.pc = "ready"
                      /\ p.result = "ConnectionError"
                /\ \A t \in Running \ ({me} \cup Gathering(tasks)) :
                      t \in BagToSet(tasks')
          /\ (me.pc = "ready" /\ GatherDone(me)) =>
                /\ last'.op = me.op
                /\ last'.outcome = me.result
                /\ store' = store
                /\ tasks' = Ended(me)]_vars

\* C17 happens: the bulk insert has ended with the error of a creator's
\* upsert, and the emoji record of that creator is in the store without the
\* creator's record.
C17_Witness ==
    /\ last.op = "_bulk_add_emojis"
    /\ last.outcome = "ConnectionError"
    /\ tasks = EmptyBag
    /\ \E k \in Keys :
          /\ store[EMOJI][k].user_id # 0
          /\ store[USER][store[EMOJI][k].user_id] = NoRecord

\* C18: a handler never ends with an error for the dispatcher that called
\* it: whatever fails inside is caught by the handler.
C18_HandlerFailureContained ==
    last.op \in EmojiHandlers \cup {OnGuildVisibility} => last.outcome = "ok"

\* C19: when the client is not started and no close() is under way, the
\* registry holds no connection, whatever get_connection calls were
\* suspended in create_redis_pool when close() ran.
C19_NothingLeftAfterClose ==
    (~started /\ \A t \in Running : t.op # "close") => clients = <<>>

\* C20: the registry never holds a pool that is closed or that a close() or
\* a destroy_connection is closing or about to close, and no pool is closed
\* twice: the pools of the coroutines that are closing are open and belong
\* to one coroutine only.
C20_RemovedBeforeClosed ==
    LET Sweep(t) == {t.conn} \cup {t.active[i] : i \in 1..Len(t.active)}
        Closing == {t \in Running : t.pc = "closing"}
    IN  /\ \A i \in 1..Len(clients) :
              /\ ~pools[clients[i][2]].closed
              /\ \A t \in Closing : clients[i][2] \notin Sweep(t)
        /\ \A t \in Closing :
              /\ tasks[t] = 1
              /\ Cardinality(Sweep(t)) = 1 + Len(t.active)
              /\ \A p \in Sweep(t) : ~pools[p].closed
              /\ \A u \in Closing \ {t} : Sweep(t) \cap Sweep(u) = {}

\* C20 happens: a destroy_connection and a close() are closing their pools
\* at the same time, the registry being empty.
C20_Witness ==
    /\ clients = <<>>
    /\ \E t, u \in Running :
          /\ t.pc = "closing" /\ t.op = "destroy_connection"
          /\ u.pc = "closing" /\ u.op = "close"

\* C21: set_emoji writes the creator's record before the emoji's.  A
\* set_emoji of an emoji with a creator that has sent the emoji's own write
\* finds the creator's record in the user partition; so every emoji record
\* of the store that names a user has that user's record there, and a
\* get_emoji that has read an emoji record and goes on to read its user
\* finds the user's record.
C21_UserBeforeEmoji ==
    /\ \A t \in Running :
          (t.op = "set_emoji" /\ t.ent.user # 0 /\ t.pc = "io" /\ t.res = EMOJI) =>
              store[USER][t.ent.user] # NoRecord
    /\ \A k \in Keys :
          store[EMOJI][k].user_id # 0 => store[USER][store[EMOJI][k].user_id] # NoRecord
    /\ \A t \in Running :
          (t.op = "get_emoji" /\ t.res = USER) => store[USER][t.key] # NoRecord

\* C21 happens: a set_emoji of an emoji with a creator is between its two
\* writes (the creator's record is written, the emoji's is not) while a
\* get_emoji of that emoji is reading.
C21_Witness ==
    \E t, r \in Running :
        /\ t.op = "set_emoji" /\ t.ent.user # 0 /\ t.pc = "io" /\ t.res = EMOJI
        /\ store[USER][t.ent.user] # NoRecord
        /\ store[EMOJI][t.ent.id] = NoRecord
        /\ r.op = "get_emoji" /\ r.pc = "io" /\ r.key = t.ent.id

\* C22: distinct resource indices have distinct partitions, a command runs
\* on the partition of the index its operation asked a connection for, and
\* a step changes the store only there: a guild set or delete and a guild
\* event change the guild record of their id only; delete_emoji the emoji
\* record of its id only; clear_emojis the emoji partition only; set_emoji
\* the user record of the emoji's creator and then the emoji record of its
\* id; the bulk insert the emoji records of its batch, and each _set_user of
\* it the record of its user.  Every other record of every partition stays
\* as it was, and a step that completes no command leaves the store alone.
C22_PartitionIsolation ==
    [][/\ \A r, o \in ResourceIndex : r # o => NewPool(r).db # NewPool(o).db
       /\ \A me \in Running :
              (me.pc = "io" /\ IODone(me)) =>
                  /\ pools[me.conn].db = me.res
                  /\ CASE me.op \in {"set_guild", "delete_guild", OnGuildVisibility} ->
                            store' = [store EXCEPT ![GUILD][me.key] = store'[GUILD][me.key]]
                        [] me.op = "delete_emoji" ->
                            store' = [store EXCEPT ![EMOJI][me.ent.id] = store'[EMOJI][me.ent.id]]
                        [] me.op = "clear_emojis" ->
                            store' = [store EXCEPT ![EMOJI] = store'[EMOJI]]
                        [] me.op = "set_emoji" /\ me.res = USER ->
                            store' = [store EXCEPT ![USER][me.ent.user] = store'[USER][me.ent.user]]
                        [] me.op = "set_emoji" /\ me.res # USER ->
                            store' = [store EXCEPT ![EMOJI][me.ent.id] = store'[EMOJI][me.ent.id]]
                        [] me.op = "_bulk_add_emojis" ->
                            /\ store' = [store EXCEPT ![EMOJI] = store'[EMOJI]]
                            /\ \A k \in Keys :
                                  store'[EMOJI][k] # store[EMOJI][k] =>
                                      \E rec \in me.batch : rec.id = k
                        [] me.op = "_set_user" ->
                            store' = [store EXCEPT ![USER][me.ent.id] = store'[USER][me.ent.id]]
                        [] OTHER -> store' = store
       /\ (\A me \in Running : ~(me.pc = "io" /\ IODone(me))) => store' = store]_vars

\* C22 happens: a guild and an emoji of the same id had their records, the
\* delete of the guild has completed on its own pool, and the emoji's
\* record is still there under that id.
C22_Witness ==
    /\ last.op = "delete_guild"
    /\ last.outcome = "ok"
    /\ last.suspended
    /\ store[GUILD][last.arg.id] = NoRecord
    /\ store[EMOJI][last.arg.id] # NoRecord
    /\ \E p, q \in 1..Len(pools) : pools[p].db = GUILD /\ pools[q].db = EMOJI
    /\ tasks = EmptyBag
====
